---- MODULE Spec2Model ----
(***************************************************************************)
(* PrismForLanguageGeneration (jury/metrics/prism): the adapter that maps  *)
(* the three prediction/reference layouts onto calls of the external Prism *)
(* scorer, reduces and averages the scores and optionally normalises them. *)
(*                                                                         *)
(* Numbers.  A score is an exact rational [n, d] (d > 0, lowest terms).    *)
(* A normalised score b ** q is an exact real, kept in the canonical form  *)
(* of a sum of terms coef * b^frac with 0 <= frac < 1 (a set of such terms *)
(* with distinct frac); for b = 2 the powers 2^frac of distinct fractions  *)
(* are linearly independent over the rationals, so two values are equal    *)
(* exactly when their canonical forms are.  Floating-point rounding is not *)
(* modelled.                                                               *)
(***************************************************************************)
EXTENDS Integers, Sequences, FiniteSets, TLC

\* ------------------------------------------------------------------ bounds
MaxItems == 2
MaxCalls == 2

\* "log_base" of the Scorer's identifier.
LogBase == 2

Threads == {1, 2}
Sentences == {1, 2}

\* --------------------------------------------------------------- rationals
Abs(x) == IF x < 0 THEN -x ELSE x

RECURSIVE GCD(_, _)
GCD(a, b) == IF b = 0 THEN a ELSE GCD(b, a % b)

Rat(n, d) ==
    LET g == GCD(Abs(n), Abs(d))
        s == IF d < 0 THEN -1 ELSE 1
    IN  [n |-> (s * n) \div g, d |-> (s * d) \div g]

RatAdd(x, y) == Rat(x.n * y.d + y.n * x.d, x.d * y.d)
RatDivInt(x, k) == Rat(x.n, x.d * k)
RatLess(x, y) == x.n * y.d < y.n * x.d

RECURSIVE RatSum(_)
RatSum(s) == IF s = <<>> THEN Rat(0, 1) ELSE RatAdd(Head(s), RatSum(Tail(s)))

\* sum(scores) / len(scores)
Mean(s) == RatDivInt(RatSum(s), Len(s))

RatMax(s) == CHOOSE x \in {s[k] : k \in 1..Len(s)} :
                 \A y \in {s[k] : k \in 1..Len(s)} : ~RatLess(x, y)
RatMin(s) == CHOOSE x \in {s[k] : k \in 1..Len(s)} :
                 \A y \in {s[k] : k \in 1..Len(s)} : ~RatLess(y, x)

\* b ** q for an integer b >= 2 and a rational q, in canonical form.
Power(b, q) ==
    LET k == q.n \div q.d
        coef == IF k >= 0 THEN Rat(b ^ k, 1) ELSE Rat(1, b ^ (-k))
    IN  {[coef |-> coef, frac |-> Rat(q.n - k * q.d, q.d)]}

\* Coefficient of b^f in the real x.
CoefAt(x, f) ==
    IF \E m \in x : m.frac = f THEN (CHOOSE m \in x : m.frac = f).coef ELSE Rat(0, 1)

\* Arithmetic mean of a non-empty sequence of reals in canonical form.
RealMean(s) ==
    LET fracs == UNION {{m.frac : m \in s[k]} : k \in 1..Len(s)}
    IN  {[coef |-> RatDivInt(RatSum([k \in 1..Len(s) |-> CoefAt(s[k], f)]), Len(s)),
          frac |-> f] : f \in fracs}

\* ------------------------------------------------- Python values of a score
Float(v) == [kind |-> "float", v |-> v]
List(s) == [kind |-> "list", v |-> s]

\* ----------------------------------------------------- external collaborators
\* Prism's score of one (candidate, reference) pair: a fixed table of
\* log-probabilities with a tie (identical sentences) and distinct values.
PairScore(c, r) == IF c = r THEN Rat(-1, 1) ELSE Rat(-(c + 2 * r), 1)

ScorerSegments(cand, ref) == [k \in 1..Len(ref) |-> PairScore(cand[k], ref[k])]

\* Prism.score(ref, cand, segment_scores): the segment scores, or their average.
ScorerScore(cand, ref, segment_scores) ==
    IF segment_scores THEN ScorerSegments(cand, ref) ELSE Mean(ScorerSegments(cand, ref))

\* The caller-supplied reduce_fn ("None": absent).
ReduceFns == {"None", "max", "min", "mean"}
ApplyReduce(fn, s) ==
    CASE fn = "max" -> RatMax(s)
      [] fn = "min" -> RatMin(s)
      [] fn = "mean" -> Mean(s)

\* ------------------------------------------------------------------ inputs
\* model_path_or_url as the three tests of _download_model see it; NoPath is None.
NoPath == [given |-> FALSE, isdir |-> FALSE, url |-> FALSE, tar |-> FALSE]
\* "http://data.statmt.org/prism/m39v1.tar"
DefaultModelUrl == [given |-> TRUE, isdir |-> FALSE, url |-> TRUE, tar |-> TRUE]
PathArgs ==
    {NoPath} \cup {[given |-> TRUE, isdir |-> d, url |-> u, tar |-> a] :
                      d \in BOOLEAN, u \in BOOLEAN, a \in BOOLEAN}

RefLists == {<<1>>, <<1, 2>>, <<2, 2, 1>>}
CandLists == {<<1>>, <<2, 1>>}

Layouts(mode) ==
    UNION {{[predictions |-> p, references |-> r] :
               p \in [1..N -> IF mode = "multi_pred_multi_ref" THEN CandLists ELSE Sentences],
               r \in [1..N -> IF mode = "single_pred_single_ref" THEN Sentences ELSE RefLists]} :
           N \in 1..MaxItems}

Modes == {"single_pred_single_ref", "single_pred_multi_ref", "multi_pred_multi_ref"}

CallArgs(mode, io, fn, seg, norm) ==
    [mode |-> mode, predictions |-> io.predictions, references |-> io.references,
     reduce_fn |-> fn, segment_scores |-> seg, normalize |-> norm]

Calls ==
    UNION {{CallArgs(mode, io, fn, seg, norm) :
               io \in Layouts(mode), fn \in ReduceFns, seg \in BOOLEAN, norm \in BOOLEAN} :
           mode \in Modes}

\* The calls two concurrent callers make: one single-item batch per mode.
ConcCalls ==
    {CallArgs("single_pred_single_ref", [predictions |-> <<1>>, references |-> <<2>>],
              "None", TRUE, FALSE),
     CallArgs("single_pred_multi_ref", [predictions |-> <<1>>, references |-> <<(<<1, 2>>)>>],
              "max", TRUE, FALSE),
     CallArgs("multi_pred_multi_ref", [predictions |-> <<(<<2, 1>>)>>, references |-> <<(<<1>>)>>],
              "max", FALSE, FALSE)}

NoCall == CallArgs("none", [predictions |-> <<>>, references |-> <<>>], "None", FALSE, FALSE)
NoResult == [score |-> List(<<>>), model_path_or_url |-> NoPath,
             segment_scores |-> FALSE, normalized |-> FALSE, returned |-> FALSE]

\* ------------------------------------------------------------------- state
VARIABLES
    model_path_or_url,  \* self.model_path_or_url
    model_dir,          \* self.model_dir: "None", "local" or "extracted"
    scorer,             \* self.scorer: 0 is None, k > 0 the k-th Prism object built
    phase,              \* "new", "ready" (set up) or "failed" (set-up raised)
    downloads,          \* dl_manager fetches made
    constructed,        \* Prism objects built so far
    ncalls,             \* compute calls begun
    active,             \* the threads that call compute
    pc,                 \* per thread: position in the compute call
    call,               \* per thread: arguments of the current call
    i, j,               \* per thread: item index, candidate index
    scores,             \* per thread: scores
    pred_scores,        \* per thread: pred_scores
    loadRet,            \* per thread: where _load_scorer returns to
    log,                \* per thread: Scorer.score invocations of the current call
    status,             \* per thread: "none", "returned" or "raised"
    error,              \* per thread: the exception raised
    result              \* per thread: the result record returned

object == <<model_path_or_url, model_dir, scorer, phase, downloads, constructed, ncalls, active>>
locals == <<pc, call, i, j, scores, pred_scores, loadRet, log, status, error, result>>
vars == <<object, locals>>

InitObject ==
    /\ model_path_or_url \in PathArgs
    /\ model_dir = "None"
    /\ scorer = 0
    /\ phase = "new"
    /\ downloads = 0
    /\ constructed = 0
    /\ ncalls = 0
    /\ pc = [t \in Threads |-> "idle"]
    /\ call = [t \in Threads |-> NoCall]
    /\ i = [t \in Threads |-> 1]
    /\ j = [t \in Threads |-> 1]
    /\ scores = [t \in Threads |-> <<>>]
    /\ pred_scores = [t \in Threads |-> <<>>]
    /\ loadRet = [t \in Threads |-> "score"]
    /\ log = [t \in Threads |-> <<>>]
    /\ status = [t \in Threads |-> "none"]
    /\ error = [t \in Threads |-> "none"]
    /\ result = [t \in Threads |-> NoResult]

Init == InitObject /\ active = {1}
InitConc == InitObject /\ active = Threads

\* ------------------------------------------------------------------ set-up
\* Variant of download_model: the ".tar" test is missing, any URL is fetched.
download_model_any_url(path_arg) ==
    LET path == IF ~path_arg.given THEN DefaultModelUrl ELSE path_arg
    IN  IF ~path.isdir /\ ~path.url
        THEN [raised |-> TRUE, path |-> path, model_dir |-> "None", fetched |-> 0]
        ELSE IF path.isdir
        THEN [raised |-> FALSE, path |-> path, model_dir |-> "local", fetched |-> 0]
        ELSE [raised |-> FALSE, path |-> path, model_dir |-> "extracted", fetched |-> 1]

\* _download_model: the outcome for the path given.
download_model(path_arg) ==
    LET path == IF ~path_arg.given THEN DefaultModelUrl ELSE path_arg
    IN  IF ~path.isdir /\ ~path.url
        THEN [raised |-> TRUE, path |-> path, model_dir |-> "None", fetched |-> 0]
        ELSE IF path.isdir
        THEN [raised |-> FALSE, path |-> path, model_dir |-> "local", fetched |-> 0]
        ELSE IF ~path.tar
        THEN [raised |-> TRUE, path |-> path, model_dir |-> "None", fetched |-> 0]
        ELSE [raised |-> FALSE, path |-> path, model_dir |-> "extracted", fetched |-> 1]

\* _download_and_prepare: resolve the model, then fetch prism.py.
download_and_prepare ==
    /\ phase = "new"
    /\ LET r == download_model(model_path_or_url)
       IN  /\ model_path_or_url' = r.path
           /\ model_dir' = r.model_dir
           /\ phase' = IF r.raised THEN "failed" ELSE "ready"
           /\ downloads' = IF r.raised THEN r.fetched ELSE r.fetched + 1
    /\ UNCHANGED <<scorer, constructed, ncalls, active, locals>>

\* ------------------------------------------------------------ compute calls
Raise(t, err) ==
    /\ pc' = [pc EXCEPT ![t] = "done"]
    /\ status' = [status EXCEPT ![t] = "raised"]
    /\ error' = [error EXCEPT ![t] = err]
    /\ result' = [result EXCEPT ![t] = NoResult]

Return(t, score) ==
    /\ pc' = [pc EXCEPT ![t] = "done"]
    /\ status' = [status EXCEPT ![t] = "returned"]
    /\ error' = error
    /\ result' = [result EXCEPT ![t] =
                     [score |-> score, model_path_or_url |-> model_path_or_url,
                      segment_scores |-> call[t].segment_scores,
                      normalized |-> call[t].normalize, returned |-> TRUE]]

\* The framework enters one of the three _compute_* methods.
compute(t) ==
    /\ phase = "ready"
    /\ t \in active
    /\ pc[t] = "idle"
    /\ ncalls < MaxCalls
    /\ ncalls' = ncalls + 1
    /\ \E c \in (IF active = {1} THEN Calls ELSE ConcCalls) :
          /\ call' = [call EXCEPT ![t] = c]
          /\ loadRet' = [loadRet EXCEPT ![t] =
                            IF c.mode = "single_pred_single_ref" THEN "score" ELSE "iter"]
    /\ pc' = [pc EXCEPT ![t] = "load"]
    /\ UNCHANGED <<model_path_or_url, model_dir, scorer, phase, downloads, constructed, active,
                   i, j, scores, pred_scores, log, status, error, result>>

\* The call is over: its frame is gone and the caller holds the result or the exception.
leave(t) ==
    /\ pc[t] = "done"
    /\ pc' = [pc EXCEPT ![t] = "idle"]
    /\ call' = [call EXCEPT ![t] = NoCall]
    /\ i' = [i EXCEPT ![t] = 1]
    /\ j' = [j EXCEPT ![t] = 1]
    /\ scores' = [scores EXCEPT ![t] = <<>>]
    /\ pred_scores' = [pred_scores EXCEPT ![t] = <<>>]
    /\ loadRet' = [loadRet EXCEPT ![t] = "score"]
    /\ log' = [log EXCEPT ![t] = <<>>]
    /\ status' = [status EXCEPT ![t] = "none"]
    /\ error' = [error EXCEPT ![t] = "none"]
    /\ result' = [result EXCEPT ![t] = NoResult]
    /\ UNCHANGED object

\* Variant of load_scorer: the test is missing, a Scorer is built on every call.
load_scorer_always(t) ==
    /\ pc[t] = "load"
    /\ pc' = [pc EXCEPT ![t] = "construct"]
    /\ UNCHANGED <<object, call, i, j, scores, pred_scores, loadRet, log, status, error, result>>

\* _load_scorer: the test `self.scorer is None`.
load_scorer(t) ==
    /\ pc[t] = "load"
    /\ pc' = [pc EXCEPT ![t] = IF scorer = 0 THEN "construct" ELSE loadRet[t]]
    /\ UNCHANGED <<object, call, i, j, scores, pred_scores, loadRet, log, status, error, result>>

\* Variant of construct_scorer: scorer is tested again before it is written
\* (double-checked initialisation).
construct_scorer_checked(t) ==
    /\ pc[t] = "construct"
    /\ constructed' = IF scorer = 0 THEN constructed + 1 ELSE constructed
    /\ scorer' = IF scorer = 0 THEN constructed + 1 ELSE scorer
    /\ pc' = [pc EXCEPT ![t] = loadRet[t]]
    /\ UNCHANGED <<model_path_or_url, model_dir, phase, downloads, ncalls, active,
                   call, i, j, scores, pred_scores, loadRet, log, status, error, result>>

\* _load_scorer: self.scorer = Prism(model_dir, lang, temperature).
construct_scorer(t) ==
    /\ pc[t] = "construct"
    /\ constructed' = constructed + 1
    /\ scorer' = constructed + 1
    /\ pc' = [pc EXCEPT ![t] = loadRet[t]]
    /\ UNCHANGED <<model_path_or_url, model_dir, phase, downloads, ncalls, active,
                   call, i, j, scores, pred_scores, loadRet, log, status, error, result>>

\* _normalize_score
normalize_score(score, exponent) ==
    IF score.kind = "float"
    THEN Float(Power(exponent, score.v))
    ELSE List([k \in 1..Len(score.v) |-> Power(exponent, score.v[k])])

\* _compute_prism_score after _load_scorer: score.tolist() or float(score).
compute_prism_score(predictions, references, segment_scores) ==
    IF segment_scores
    THEN List(ScorerScore(predictions, references, TRUE))
    ELSE Float(ScorerScore(predictions, references, FALSE))

\* Variant of Broadcast: the prediction is not repeated.
BroadcastOnce(pred, refs) == <<pred>>

\* [pred] * len(refs)
Broadcast(pred, refs) == [k \in 1..Len(refs) |-> pred]

\* Variant of AppendScore: the new score goes to the front.
AppendScoreFront(s, x) == <<x>> \o s

\* scores.append(reduced_score)
AppendScore(s, x) == Append(s, x)

\* reduce_fn(prism_score): over the references of one candidate.
ReduceReferences(fn, prism_score) == ApplyReduce(fn, prism_score)

\* Variant of ReduceCandidates: the candidates are averaged whatever reduce_fn is.
ReduceCandidatesMean(fn, ps) == Mean(ps)

\* reduce_fn(pred_scores): over the candidates of one item.
ReduceCandidates(fn, ps) == ApplyReduce(fn, ps)

\* Variant of Aggregate: the corpus score is the sum, not the mean.
AggregateSum(s, segment_scores, normalize) ==
    LET agg == IF ~segment_scores THEN Float(RatSum(s)) ELSE List(s)
    IN  IF normalize THEN normalize_score(agg, LogBase) ELSE agg

\* Variant of Aggregate: the scores are normalised first and averaged afterwards.
AggregateNormalizeFirst(s, segment_scores, normalize) ==
    IF normalize
    THEN LET n == normalize_score(List(s), LogBase).v
         IN  IF ~segment_scores THEN Float(RealMean(n)) ELSE List(n)
    ELSE IF ~segment_scores THEN Float(Mean(s)) ELSE List(s)

\* The tail of the multi-reference modes: corpus average, then normalisation.
Aggregate(s, segment_scores, normalize) ==
    LET agg == IF ~segment_scores THEN Float(Mean(s)) ELSE List(s)
    IN  IF normalize THEN normalize_score(agg, LogBase) ELSE agg

\* The Scorer.score invocation a thread at "score" makes.
Invocation(t) ==
    LET c == call[t]
    IN  CASE c.mode = "single_pred_single_ref" ->
                [cand |-> c.predictions, ref |-> c.references, seg |-> c.segment_scores]
          [] c.mode = "single_pred_multi_ref" ->
                [cand |-> Broadcast(c.predictions[i[t]], c.references[i[t]]),
                 ref |-> c.references[i[t]], seg |-> TRUE]
          [] c.mode = "multi_pred_multi_ref" ->
                [cand |-> Broadcast(c.predictions[i[t]][j[t]], c.references[i[t]]),
                 ref |-> c.references[i[t]], seg |-> TRUE]

\* A record of one Scorer.score invocation and whether it raised.
Logged(v, raised) == [cand |-> v.cand, ref |-> v.ref, seg |-> v.seg, raised |-> raised]

\* Variant of scorer_raises: the exception is caught and the invocation retried.
scorer_raises_retried(t) ==
    /\ pc[t] = "score"
    /\ log' = [log EXCEPT ![t] = Append(@, Logged(Invocation(t), TRUE))]
    /\ UNCHANGED <<object, pc, call, i, j, scores, pred_scores, loadRet, status, error, result>>

\* Scorer.score raises: nothing catches it.
scorer_raises(t) ==
    /\ pc[t] = "score"
    /\ log' = [log EXCEPT ![t] = Append(@, Logged(Invocation(t), TRUE))]
    /\ Raise(t, "ScorerError")
    /\ UNCHANGED <<object, call, i, j, scores, pred_scores, loadRet>>

\* Variant of single_pred_single_ref: an absent reduce_fn is rejected.
single_pred_single_ref_checked(t) ==
    /\ pc[t] = "score"
    /\ call[t].mode = "single_pred_single_ref"
    /\ LET v == Invocation(t)
           score == compute_prism_score(v.cand, v.ref, v.seg)
       IN  /\ Len(v.cand) = Len(v.ref)
           /\ log' = [log EXCEPT ![t] = Append(@, Logged(v, FALSE))]
           /\ IF call[t].reduce_fn = "None"
              THEN Raise(t, "ValueError")
              ELSE Return(t, IF call[t].normalize THEN normalize_score(score, LogBase) ELSE score)
    /\ UNCHANGED <<object, call, i, j, scores, pred_scores, loadRet>>

\* _compute_single_pred_single_ref once the Scorer has returned.
single_pred_single_ref(t) ==
    /\ pc[t] = "score"
    /\ call[t].mode = "single_pred_single_ref"
    /\ LET v == Invocation(t)
           score == compute_prism_score(v.cand, v.ref, v.seg)
       IN  /\ Len(v.cand) = Len(v.ref)
           /\ log' = [log EXCEPT ![t] = Append(@, Logged(v, FALSE))]
           /\ Return(t, IF call[t].normalize THEN normalize_score(score, LogBase) ELSE score)
    /\ UNCHANGED <<object, call, i, j, scores, pred_scores, loadRet>>

\* _compute_single_pred_multi_ref: one pass of the loop body after the Scorer returned.
single_pred_multi_ref_item(t) ==
    /\ pc[t] = "score"
    /\ call[t].mode = "single_pred_multi_ref"
    /\ LET v == Invocation(t)
           prism_score == compute_prism_score(v.cand, v.ref, TRUE)
       IN  /\ Len(v.cand) = Len(v.ref)
           /\ log' = [log EXCEPT ![t] = Append(@, Logged(v, FALSE))]
           /\ IF call[t].reduce_fn = "None"
              THEN Raise(t, "TypeError") /\ UNCHANGED <<scores, i>>
              ELSE /\ scores' = [scores EXCEPT ![t] =
                          AppendScore(@, ReduceReferences(call[t].reduce_fn, prism_score.v))]
                   /\ i' = [i EXCEPT ![t] = @ + 1]
                   /\ pc' = [pc EXCEPT ![t] = "iter"]
                   /\ UNCHANGED <<status, error, result>>
    /\ UNCHANGED <<object, call, j, pred_scores, loadRet>>

\* _compute_multi_pred_multi_ref: one pass of the inner loop body.
multi_pred_multi_ref_cand(t) ==
    /\ pc[t] = "score"
    /\ call[t].mode = "multi_pred_multi_ref"
    /\ LET v == Invocation(t)
           prism_score == compute_prism_score(v.cand, v.ref, TRUE)
       IN  /\ Len(v.cand) = Len(v.ref)
           /\ log' = [log EXCEPT ![t] = Append(@, Logged(v, FALSE))]
           /\ IF call[t].reduce_fn = "None"
              THEN Raise(t, "TypeError") /\ UNCHANGED <<pred_scores, j>>
              ELSE /\ pred_scores' = [pred_scores EXCEPT ![t] =
                          Append(@, ReduceReferences(call[t].reduce_fn, prism_score.v))]
                   /\ j' = [j EXCEPT ![t] = @ + 1]
                   /\ pc' = [pc EXCEPT ![t] = "iter"]
                   /\ UNCHANGED <<status, error, result>>
    /\ UNCHANGED <<object, call, i, scores, loadRet>>

\* _compute_single_pred_multi_ref: the loop head, and the tail once the loop ends.
single_pred_multi_ref_next(t) ==
    /\ pc[t] = "iter"
    /\ call[t].mode = "single_pred_multi_ref"
    /\ IF i[t] <= Len(call[t].predictions)
       THEN /\ pc' = [pc EXCEPT ![t] = "load"]
            /\ loadRet' = [loadRet EXCEPT ![t] = "score"]
            /\ UNCHANGED <<status, error, result>>
       ELSE /\ Return(t, Aggregate(scores[t], call[t].segment_scores, call[t].normalize))
            /\ UNCHANGED loadRet
    /\ UNCHANGED <<object, call, i, j, scores, pred_scores, log>>

\* _compute_multi_pred_multi_ref: the loop heads, the end of the inner loop, the tail.
multi_pred_multi_ref_next(t) ==
    /\ pc[t] = "iter"
    /\ call[t].mode = "multi_pred_multi_ref"
    /\ IF i[t] > Len(call[t].predictions)
       THEN /\ Return(t, Aggregate(scores[t], call[t].segment_scores, call[t].normalize))
            /\ UNCHANGED <<loadRet, i, j, scores, pred_scores>>
       ELSE IF j[t] <= Len(call[t].predictions[i[t]])
       THEN /\ pc' = [pc EXCEPT ![t] = "load"]
            /\ loadRet' = [loadRet EXCEPT ![t] = "score"]
            /\ UNCHANGED <<status, error, result, i, j, scores, pred_scores>>
       ELSE /\ scores' = [scores EXCEPT ![t] =
                   AppendScore(@, ReduceCandidates(call[t].reduce_fn, pred_scores[t]))]
            /\ pred_scores' = [pred_scores EXCEPT ![t] = <<>>]
            /\ i' = [i EXCEPT ![t] = @ + 1]
            /\ j' = [j EXCEPT ![t] = 1]
            /\ UNCHANGED <<pc, loadRet, status, error, result>>
    /\ UNCHANGED <<object, call, log>>

Next ==
    \/ download_and_prepare
    \/ \E t \in Threads :
          \/ compute(t)
          \/ leave(t)
          \/ load_scorer(t)
          \/ construct_scorer(t)
          \/ scorer_raises(t)
          \/ single_pred_single_ref(t)
          \/ single_pred_multi_ref_item(t)
          \/ single_pred_multi_ref_next(t)
          \/ multi_pred_multi_ref_cand(t)
          \/ multi_pred_multi_ref_next(t)

Spec == Init /\ [][Next]_vars
SpecConc == InitConc /\ [][Next]_vars

\* ------------------------------------------------------------- closed forms
\* What the claims speak of, written from the inputs alone.

Repeat(x, n) == [k \in 1..n |-> x]

\* The unnormalised score of every item of call c.
ItemScores(c) ==
    [k \in 1..Len(c.predictions) |->
        CASE c.mode = "single_pred_single_ref" ->
                PairScore(c.predictions[k], c.references[k])
          [] c.mode = "single_pred_multi_ref" ->
                ApplyReduce(c.reduce_fn,
                    ScorerSegments(Repeat(c.predictions[k], Len(c.references[k])),
                                   c.references[k]))
          [] c.mode = "multi_pred_multi_ref" ->
                ApplyReduce(c.reduce_fn,
                    [m \in 1..Len(c.predictions[k]) |->
                        ApplyReduce(c.reduce_fn,
                            ScorerSegments(Repeat(c.predictions[k][m], Len(c.references[k])),
                                           c.references[k]))])]

NormalizedItemScores(c) == [k \in 1..Len(c.predictions) |-> Power(LogBase, ItemScores(c)[k])]

Returned(t) == pc[t] = "done" /\ status[t] = "returned"

\* ------------------------------------------------------------------ claims

\* C1: in single-pred/multi-ref mode the k-th Scorer invocation of a call scores
\* prediction k, repeated once per reference of item k, against references[k] in
\* segment-score mode, there is exactly one invocation per item, and with
\* segment_scores and without normalisation score[k] is reduce_fn of those
\* segment scores.
C1_SinglePredMultiRef ==
    \A t \in Threads :
        call[t].mode = "single_pred_multi_ref" =>
            /\ Len(log[t]) <= Len(call[t].predictions)
            /\ \A k \in 1..Len(log[t]) :
                  /\ log[t][k].cand = Repeat(call[t].predictions[k], Len(call[t].references[k]))
                  /\ log[t][k].ref = call[t].references[k]
                  /\ log[t][k].seg
            /\ Returned(t) => Len(log[t]) = Len(call[t].predictions)
            /\ (Returned(t) /\ call[t].segment_scores /\ ~call[t].normalize) =>
                  result[t].score = List(ItemScores(call[t]))

C1_Witness ==
    /\ Returned(1)
    /\ call[1].mode = "single_pred_multi_ref"
    /\ call[1].segment_scores /\ ~call[1].normalize
    /\ call[1].reduce_fn = "mean"
    /\ call[1].predictions = <<1, 2>>
    /\ call[1].references = <<(<<1, 2>>), (<<2, 2, 1>>)>>
    /\ result[1].score.v = <<Rat(-3, 1), Rat(-2, 1)>>

\* C2: in multi-pred/multi-ref mode with segment_scores and without
\* normalisation, score[k] is reduce_fn over the candidates of item k of
\* reduce_fn over the references of item k of the Scorer's segment scores.
C2_MultiPredMultiRef ==
    \A t \in Threads :
        (/\ Returned(t)
         /\ call[t].mode = "multi_pred_multi_ref"
         /\ call[t].segment_scores /\ ~call[t].normalize) =>
            result[t].score = List(ItemScores(call[t]))

C2_Witness ==
    /\ Returned(1)
    /\ call[1].mode = "multi_pred_multi_ref"
    /\ call[1].segment_scores /\ ~call[1].normalize
    /\ call[1].reduce_fn = "max"
    /\ call[1].predictions = <<(<<2, 1>>), (<<1>>)>>
    /\ call[1].references = <<(<<1, 2>>), (<<2, 2, 1>>)>>
    /\ result[1].score.v = <<Rat(-1, 1), Rat(-1, 1)>>

\* C3 as claimed: with segment_scores=false the score is the arithmetic mean of
\* the scores the same call returns with segment_scores=true, normalised or not.
C3_Original ==
    \A t \in Threads :
        (Returned(t) /\ ~call[t].segment_scores) =>
            result[t].score.v =
                IF call[t].normalize
                THEN RealMean(NormalizedItemScores(call[t]))
                ELSE Mean(ItemScores(call[t]))

\* C3 amended: without normalisation the corpus score is the arithmetic mean of
\* the segment scores; with normalisation it is base ** (the mean of the
\* unnormalised segment scores).
C3_CorpusIsMean ==
    \A t \in Threads :
        (Returned(t) /\ ~call[t].segment_scores) =>
            result[t].score =
                IF call[t].normalize
                THEN Float(Power(LogBase, Mean(ItemScores(call[t]))))
                ELSE Float(Mean(ItemScores(call[t])))

C3_Witness ==
    /\ Returned(1)
    /\ call[1].mode = "single_pred_multi_ref"
    /\ ~call[1].segment_scores /\ ~call[1].normalize
    /\ call[1].reduce_fn = "min"
    /\ call[1].predictions = <<1, 2>>
    /\ call[1].references = <<(<<1, 2>>), (<<2, 2, 1>>)>>
    /\ result[1].score = Float(Rat(-9, 2))

\* C4: with normalisation the score is base ** x for the aggregated result x
\* reported without normalisation: every element of the segment sequence, or
\* the corpus mean.
C4_NormalizeAfterAggregation ==
    \A t \in Threads :
        (Returned(t) /\ call[t].normalize) =>
            result[t].score =
                IF call[t].segment_scores
                THEN List(NormalizedItemScores(call[t]))
                ELSE Float(Power(LogBase, Mean(ItemScores(call[t]))))

C4_Witness ==
    /\ Returned(1)
    /\ call[1].mode = "multi_pred_multi_ref"
    /\ ~call[1].segment_scores /\ call[1].normalize
    /\ call[1].reduce_fn = "mean"
    /\ call[1].predictions = <<(<<2, 1>>), (<<1>>)>>
    /\ call[1].references = <<(<<1>>), (<<1, 2>>)>>
    /\ result[1].score.v = {[coef |-> Rat(1, 8), frac |-> Rat(1, 4)]}

\* What holds of a metric object whose set-up raised before doing anything.
RaisedBeforeAnything ==
    /\ phase = "failed"
    /\ model_dir = "None"
    /\ downloads = 0
    /\ constructed = 0 /\ scorer = 0
    /\ ncalls = 0
    /\ \A t \in Threads : log[t] = <<>> /\ pc[t] = "idle"

\* C5 as claimed: set-up raises, before any download, Scorer construction or
\* scoring and with model_dir unset, for a path that is neither a directory nor
\* a valid URL and for every valid URL that does not end in ".tar".
C5_Original ==
    LET p == model_path_or_url
    IN  (phase # "new" /\ ((~p.isdir /\ ~p.url) \/ (p.url /\ ~p.tar))) => RaisedBeforeAnything

\* C5 amended: the same, for a valid URL without ".tar" that is not also an
\* existing local directory.
C5_InvalidModelSource ==
    LET p == model_path_or_url
    IN  (phase # "new" /\ ((~p.isdir /\ ~p.url) \/ (~p.isdir /\ p.url /\ ~p.tar))) =>
            RaisedBeforeAnything

C5_Witness ==
    /\ phase = "failed"
    /\ ~model_path_or_url.isdir /\ model_path_or_url.url /\ ~model_path_or_url.tar

\* C6: with one caller the Scorer is built at most once, during the first
\* compute call and before any Scorer.score invocation; every position past
\* _load_scorer holds a Scorer, and the reference never changes once it is set.
C6_ScorerBuiltOnce ==
    /\ [](/\ constructed <= 1
          /\ scorer # 0 => constructed = 1
          /\ ncalls >= 2 => scorer # 0
          /\ \A t \in Threads : (pc[t] \in {"score", "iter", "done"} \/ log[t] # <<>>) => scorer # 0)
    /\ [][/\ scorer # 0 => scorer' = scorer
          /\ constructed' # constructed => (ncalls = 1 /\ \A t \in Threads : log[t] = <<>>)]_vars

C6_Witness ==
    /\ ncalls = 2
    /\ Returned(1)
    /\ call[1].mode = "multi_pred_multi_ref"
    /\ Len(log[1]) = 3
    /\ constructed = 1 /\ scorer = 1

\* C7 as claimed: single-pred/single-ref fails with InvalidArgument (ValueError)
\* when reduce_fn is absent.
C7_Original ==
    \A t \in Threads :
        (/\ pc[t] = "done"
         /\ call[t].mode = "single_pred_single_ref"
         /\ call[t].reduce_fn = "None") =>
            (status[t] = "raised" /\ error[t] = "ValueError")

\* C7 amended: single-pred/single-ref never looks at reduce_fn: the call raises
\* only what the Scorer raises, and otherwise returns the Scorer's scores
\* whatever reduce_fn is, absent included.
C7_ReduceFnIgnored ==
    \A t \in Threads :
        (pc[t] = "done" /\ call[t].mode = "single_pred_single_ref") =>
            /\ status[t] = "raised" => error[t] = "ScorerError"
            /\ status[t] = "returned" =>
                  /\ Len(log[t]) = 1
                  /\ result[t].score.kind = (IF call[t].segment_scores THEN "list" ELSE "float")
                  /\ result[t].score.v =
                        LET seg == ScorerSegments(call[t].predictions, call[t].references)
                        IN  CASE call[t].segment_scores /\ ~call[t].normalize -> seg
                              [] call[t].segment_scores /\ call[t].normalize ->
                                    [k \in 1..Len(seg) |-> Power(LogBase, seg[k])]
                              [] ~call[t].segment_scores /\ ~call[t].normalize -> Mean(seg)
                              [] ~call[t].segment_scores /\ call[t].normalize ->
                                    Power(LogBase, Mean(seg))

C7_Witness ==
    /\ Returned(1)
    /\ call[1].mode = "single_pred_single_ref"
    /\ call[1].reduce_fn = "None"
    /\ call[1].segment_scores /\ ~call[1].normalize
    /\ call[1].predictions = <<1, 1>> /\ call[1].references = <<1, 2>>
    /\ result[1].score = List(<<Rat(-1, 1), Rat(-5, 1)>>)

\* C8: a Scorer.score invocation that raises is the last invocation of its
\* call: the call is over with that error, there is no result record, and
\* nothing is scored after it or again.
C8_ScorerFailureAborts ==
    \A t \in Threads :
        /\ \A k \in 1..Len(log[t]) :
              log[t][k].raised =>
                  /\ k = Len(log[t])
                  /\ pc[t] = "done"
                  /\ status[t] = "raised" /\ error[t] = "ScorerError"
                  /\ result[t] = NoResult
        /\ error[t] = "ScorerError" => (log[t] # <<>> /\ log[t][Len(log[t])].raised)

C8_Witness ==
    /\ pc[1] = "done" /\ status[1] = "raised" /\ error[1] = "ScorerError"
    /\ call[1].mode = "multi_pred_multi_ref"
    /\ call[1].predictions = <<(<<2, 1>>), (<<2, 1>>)>>
    /\ i[1] = 2 /\ j[1] = 2
    /\ Len(scores[1]) = 1 /\ Len(pred_scores[1]) = 1
    /\ Len(log[1]) = 4
    /\ result[1] = NoResult

\* C9: with segment_scores the score is a sequence with one entry per item, the
\* k-th entry being the score of item k (normalised when normalisation is asked).
C9_SegmentOrder ==
    \A t \in Threads :
        (Returned(t) /\ call[t].segment_scores) =>
            /\ result[t].score.kind = "list"
            /\ Len(result[t].score.v) = Len(call[t].predictions)
            /\ \A k \in 1..Len(call[t].predictions) :
                  result[t].score.v[k] =
                      IF call[t].normalize
                      THEN NormalizedItemScores(call[t])[k]
                      ELSE ItemScores(call[t])[k]

C9_Witness ==
    /\ Returned(1)
    /\ call[1].mode = "single_pred_multi_ref"
    /\ call[1].segment_scores /\ ~call[1].normalize
    /\ call[1].reduce_fn = "min"
    /\ call[1].predictions = <<1, 2>>
    /\ call[1].references = <<(<<1, 2>>), (<<2, 2, 1>>)>>
    /\ result[1].score.v = <<Rat(-5, 1), Rat(-4, 1)>>

\* C10: nothing guards the lazy initialisation.  A thread that finds scorer None
\* goes on to build a Scorer whatever the other threads are doing, and a thread
\* that builds one stores it without looking at scorer again.
C10_UnguardedInit ==
    [][\A t \in Threads :
          /\ (pc[t] = "load" /\ pc'[t] # "load" /\ scorer = 0) => pc'[t] = "construct"
          /\ (pc[t] = "construct" /\ pc'[t] # "construct") =>
                (constructed' = constructed + 1 /\ scorer' = constructed')]_vars

\* Both threads saw None and both built a Scorer: the first reference is lost.
C10_Witness ==
    /\ constructed = 2
    /\ scorer = 2
    /\ \A t \in Threads : pc[t] \in {"score", "iter"} /\ log[t] = <<>>

====
